---------------------------- MODULE Spec2Model ----------------------------
(***************************************************************************)
(* A model of hashfill's RecursiveFiller (src/hashfill.go).                *)
(*                                                                         *)
(* A geohash is a sequence of one-character strings; hash + next is        *)
(* Append(hash, next) and len(hash) is Len(hash).                          *)
(*                                                                         *)
(* The polygon and the two geometric predicates are collaborators of the   *)
(* filler.  The variable fence holds what the predicates answer for the    *)
(* polygon at hand: an answer is chosen, from every answer a predicate can *)
(* give, the first time a predicate is evaluated on a cell and is kept     *)
(* from then on, so the predicates are pure functions of (polygon, cell).  *)
(* The polygons of the model lie in the first and the last child of a      *)
(* cell; on every other cell both predicates answer false.                 *)
(*                                                                         *)
(* computeVariableHashes is walked with an explicit call stack, one frame   *)
(* per active call; a step is the evaluation of a predicate with the tests *)
(* on its answer, or a turn of the loop.  extendHashToMaxPrecision and     *)
(* the fixed-precision part of Fill evaluate no predicate: they are pure   *)
(* functions of the configuration and are written as operators.            *)
(***************************************************************************)
EXTENDS Integers, Sequences, FiniteSets, TLC

VARIABLES
    f,          \* the RecursiveFiller: [maxPrecision, fixedPrecision]
    fence,      \* the polygon as the predicates see it: [contains, intersects],
                \* each the answers on the cells the fence can touch
    mode,       \* Fill's argument mode
    maxHashes,  \* Fill's argument maxHashes
    pc,         \* where Fill is: "idle", "search", "afterSearch", "fixed", "done"
    stack,      \* the active calls of computeVariableHashes, innermost last
    ret,        \* what the last call of computeVariableHashes returned
    hashes,     \* Fill's local hashes (the variable-length cells)
    result,     \* what Fill returned
    log,        \* history: the predicate evaluations of this call, in order,
                \* each with what the search did with the cell
    steps,      \* history: the number of steps this call of Fill has taken
    returned    \* history: what an earlier call of Fill on this fence returned

vars == <<f, fence, mode, maxHashes, pc, stack, ret, hashes, result, log,
          steps, returned>>

----------------------------------------------------------------------------
(* Constants of the program. *)

\* The geohash alphabet, in its order.
geohashBase32Alphabet ==
    << "0", "1", "2", "3", "4", "5", "6", "7",
       "8", "9", "b", "c", "d", "e", "f", "g",
       "h", "j", "k", "m", "n", "p", "q", "r",
       "s", "t", "u", "v", "w", "x", "y", "z" >>

FillIntersects == 1
FillContains == 2

----------------------------------------------------------------------------
(* Bounds of the model. *)

\* The largest maximum precision a filler is constructed with.
MaxPrecisionBound == 2

\* The largest of the small maxHashes Fill is called with.
MaxHashesBound == 2

\* The most cells shorter than the maximum precision that the fence straddles
\* (intersects without containing): the cells a search subdivides.
MaxStraddled == 2

\* The fences of the model lie in the first and the last child of a cell, the
\* first and the last turn of the loops: a cell whose hash holds another
\* symbol is evaluated like every cell, and is neither contained nor
\* intersected, and the predicates do not fail on it.  (The code has no
\* branch on the symbol: the symbols differ in their place in the order.)
TouchedSymbols ==
    {geohashBase32Alphabet[1], geohashBase32Alphabet[Len(geohashBase32Alphabet)]}
Touchable(hash) == \A i \in DOMAIN hash : hash[i] \in TouchedSymbols

----------------------------------------------------------------------------
(* Values. *)

\* A Go error: nil, a predicate's error, or the output-cap error
\* fmt.Errorf("hash limit at %d, but already have: %d", limit, have).
NoErr == [kind |-> "nil", msg |-> "", limit |-> 0, have |-> 0]
PredicateErr(e) == [kind |-> "predicate", msg |-> e, limit |-> 0, have |-> 0]
LimitErr(limit, have) ==
    [kind |-> "limit", msg |-> "hash limit", limit |-> limit, have |-> have]

\* The errors the predicates return.
ContainsError == "contains failed"
IntersectsError == "intersects failed"

\* A Go []string: nil, or a slice holding elems.
NilSlice == [nil |-> TRUE, elems |-> <<>>]
Slice(s) == [nil |-> FALSE, elems |-> s]

\* append(a, b...): a itself, nil when a is nil, when b is empty.
AppendSlice(a, b) ==
    IF b.elems = <<>> THEN a ELSE Slice(a.elems \o b.elems)

\* A (value, error) pair returned by a function.
Pair(v, e) == [hashes |-> v, err |-> e]

\* What a predicate can answer: true, false, or its error.
Answer(v, e) == [val |-> v, err |-> e]
Answers ==
    {Answer(v, NoErr) : v \in BOOLEAN}
        \cup {Answer(FALSE, PredicateErr(e)) : e \in {ContainsError, IntersectsError}}
ContainsAnswers ==
    {Answer(v, NoErr) : v \in BOOLEAN} \cup {Answer(FALSE, PredicateErr(ContainsError))}
IntersectsAnswers ==
    {Answer(v, NoErr) : v \in BOOLEAN} \cup {Answer(FALSE, PredicateErr(IntersectsError))}

\* The answers a predicate with table g can give on hash: false on a cell the
\* fence cannot touch, the answer it gave before, or any of fresh when it was
\* never asked.
Ask(g, hash, fresh) ==
    IF ~Touchable(hash) THEN {Answer(FALSE, NoErr)}
    ELSE IF hash \in DOMAIN g THEN {g[hash]}
    ELSE fresh

\* Table g with the answer a on hash; the table holds the cells the fence can
\* touch.
Told(g, hash, a) ==
    IF ~Touchable(hash) THEN g
    ELSE [h \in DOMAIN g \cup {hash} |-> IF h = hash THEN a ELSE g[h]]

EmptyTable == [h \in {} |-> NoErr]

----------------------------------------------------------------------------
(* The tests of the code. *)

\* A slip: the precision is tested one level too late.
AtMaxPrecisionOffByOne(hash, maxPrecision) == Len(hash) = maxPrecision + 1

\* len(hash) == f.maxPrecision
AtMaxPrecision(hash, maxPrecision) == Len(hash) = maxPrecision

\* len(x) > maxHashes
OverLimit(n, limit) == n > limit

\* A slip: the test names the other mode.
KeepsBoundaryInContains(m) == m = FillContains

\* mode == FillIntersects
KeepsBoundary(m) == m = FillIntersects

\* A slip: every child is built from the first symbol.
childOfFirstSymbol(hash, i) == Append(hash, geohashBase32Alphabet[1])

\* hash + next, next being the i-th symbol of the alphabet.
child(hash, i) == Append(hash, geohashBase32Alphabet[i])

\* A slip: the test of cont is inverted.
containsOutcomeInverted(a) ==
    IF a.err # NoErr THEN "error"
    ELSE IF ~a.val THEN "accept"
    ELSE "intersects"

\* What computeVariableHashes does with the answer a of Contains: it returns
\* the error, returns the hash, or goes on to Intersects.
containsOutcome(a) ==
    IF a.err # NoErr THEN "error"
    ELSE IF a.val THEN "accept"
    ELSE "intersects"

\* A slip: the mode is tested before the precision, so that a Contains search
\* drops every cell the fence straddles.
intersectsOutcomeModeFirst(a, hash, maxPrecision, m) ==
    IF a.err # NoErr THEN "error"
    ELSE IF ~a.val THEN "reject"
    ELSE IF m # FillIntersects THEN "reject"
    ELSE IF Len(hash) = maxPrecision THEN "accept"
    ELSE "subdivide"

\* What computeVariableHashes does with the answer a of Intersects: it returns
\* the error, returns nothing, returns the hash, or starts its loop.
intersectsOutcome(a, hash, maxPrecision, m) ==
    IF a.err # NoErr THEN "error"
    ELSE IF ~a.val THEN "reject"
    ELSE IF AtMaxPrecision(hash, maxPrecision)
    THEN IF KeepsBoundary(m) THEN "accept" ELSE "reject"
    ELSE "subdivide"

\* What the loop of computeVariableHashes does with what a call returned: it
\* returns (a pair), or goes on with new local hashes (a slice).
Returns(p) == [returns |-> TRUE, pair |-> p, hashes |-> NilSlice]
GoesOn(hs) == [returns |-> FALSE, pair |-> Pair(NilSlice, NoErr), hashes |-> hs]

\* A slip: the error of the call is dropped and the loop goes on.
collectOutcomeDroppingErr(acc, r, limit) ==
    LET out == r.hashes
        all == AppendSlice(acc, out)
    IN  IF Len(out.elems) > limit
        THEN Returns(Pair(NilSlice, LimitErr(limit, Len(out.elems))))
        ELSE IF Len(all.elems) > limit
        THEN Returns(Pair(NilSlice, LimitErr(limit, Len(all.elems))))
        ELSE GoesOn(all)

\* A slip: the list is not tested after the append.
collectOutcomeUntestedAppend(acc, r, limit) ==
    LET out == r.hashes
        all == AppendSlice(acc, out)
    IN  IF r.err # NoErr
        THEN Returns(Pair(NilSlice, r.err))
        ELSE IF Len(out.elems) > limit
        THEN Returns(Pair(NilSlice, LimitErr(limit, Len(out.elems))))
        ELSE GoesOn(all)

\* The loop of computeVariableHashes takes the (out, err) = r a call returned,
\* acc being the local hashes.
collectOutcome(acc, r, limit) ==
    LET out == r.hashes
        all == AppendSlice(acc, out)
    IN  IF r.err # NoErr
        THEN Returns(Pair(NilSlice, r.err))
        ELSE IF OverLimit(Len(out.elems), limit)
        THEN Returns(Pair(NilSlice, LimitErr(limit, Len(out.elems))))
        ELSE IF OverLimit(Len(all.elems), limit)
        THEN Returns(Pair(NilSlice, LimitErr(limit, Len(all.elems))))
        ELSE GoesOn(all)

----------------------------------------------------------------------------
(* extendHashToMaxPrecision and the fixed-precision part of Fill. *)

RECURSIVE extendHashToMaxPrecision(_, _, _)
RECURSIVE extendLoop(_, _, _, _, _)

\* A slip: the loop stops before the last symbol.
extendLoopShort(maxPrecision, hash, limit, i, acc) ==
    IF i >= Len(geohashBase32Alphabet)
    THEN Pair(acc, NoErr)
    ELSE LET out == extendHashToMaxPrecision(maxPrecision, child(hash, i), limit)
             all == AppendSlice(acc, out.hashes)
         IN  IF out.err # NoErr
             THEN Pair(NilSlice, out.err)
             ELSE IF Len(out.hashes.elems) > limit
             THEN Pair(NilSlice, LimitErr(limit, Len(out.hashes.elems)))
             ELSE IF Len(all.elems) > limit
             THEN Pair(NilSlice, LimitErr(limit, Len(all.elems)))
             ELSE extendLoop(maxPrecision, hash, limit, i + 1, all)

\* The loop of extendHashToMaxPrecision from its i-th symbol on, acc being
\* the local hashes.
extendLoop(maxPrecision, hash, limit, i, acc) ==
    IF i > Len(geohashBase32Alphabet)
    THEN Pair(acc, NoErr)
    ELSE LET out == extendHashToMaxPrecision(maxPrecision, child(hash, i), limit)
             all == AppendSlice(acc, out.hashes)
         IN  IF out.err # NoErr
             THEN Pair(NilSlice, out.err)
             ELSE IF OverLimit(Len(out.hashes.elems), limit)
             THEN Pair(NilSlice, LimitErr(limit, Len(out.hashes.elems)))
             ELSE IF OverLimit(Len(all.elems), limit)
             THEN Pair(NilSlice, LimitErr(limit, Len(all.elems)))
             ELSE extendLoop(maxPrecision, hash, limit, i + 1, all)

extendHashToMaxPrecision(maxPrecision, hash, limit) ==
    IF AtMaxPrecision(hash, maxPrecision)
    THEN Pair(Slice(<<hash>>), NoErr)
    ELSE extendLoop(maxPrecision, hash, limit, 1, Slice(<<>>))

RECURSIVE fillLoop(_, _, _, _, _)

\* The loop of Fill over hs from its i-th hash on, out being the local out.
fillLoop(maxPrecision, hs, limit, i, out) ==
    IF i > Len(hs.elems)
    THEN Pair(out, NoErr)
    ELSE LET extended == extendHashToMaxPrecision(maxPrecision, hs.elems[i], limit)
             all == AppendSlice(out, extended.hashes)
         IN  IF extended.err # NoErr
             THEN Pair(NilSlice, extended.err)
             ELSE IF OverLimit(Len(all.elems), limit)
             THEN Pair(NilSlice, LimitErr(limit, Len(all.elems)))
             ELSE fillLoop(maxPrecision, hs, limit, i + 1, all)

\* A slip: the test is >= for >.
fillPreCheckAtLimit(out, limit) == Len(out.elems) >= limit

\* The check Fill makes on the empty out before its loop.
fillPreCheck(out, limit) == OverLimit(Len(out.elems), limit)

\* Fill from "out := make(...)" to its end.
fillFixed(maxPrecision, hs, limit) ==
    LET out == Slice(<<>>)
    IN  IF fillPreCheck(out, limit)
        THEN Pair(NilSlice, LimitErr(limit, Len(out.elems)))
        ELSE fillLoop(maxPrecision, hs, limit, 1, out)

----------------------------------------------------------------------------
(* The state machine. *)

\* A call of computeVariableHashes on hash, about to evaluate Contains.
Frame(hash) == [hash |-> hash, pc |-> "contains", i |-> 1, hashes |-> NilSlice]

Top == stack[Len(stack)]
Pop == SubSeq(stack, 1, Len(stack) - 1)
SetTop(fr) == [stack EXCEPT ![Len(stack)] = fr]

\* The predicate ev was evaluated on hash and the search did o with the cell.
Event(ev, hash, o) == [ev |-> ev, hash |-> hash, outcome |-> o]

\* NewRecursiveFiller with WithMaxPrecision and, or not, WithFixedPrecision.
Fillers ==
    [maxPrecision : 0..MaxPrecisionBound, fixedPrecision : BOOLEAN]

NoResult == Pair(NilSlice, NoErr)

Init ==
    /\ f \in Fillers
    /\ fence = [contains |-> EmptyTable, intersects |-> EmptyTable]
    /\ mode = FillIntersects
    /\ maxHashes = 0
    /\ pc = "idle"
    /\ stack = <<>>
    /\ ret = NoResult
    /\ hashes = NilSlice
    /\ result = NoResult
    /\ log = <<>>
    /\ steps = 0
    /\ returned = <<>>

\* The cells shorter than the maximum precision that the fence is known to
\* straddle.
Straddled ==
    {h \in DOMAIN fence.intersects :
        /\ fence.intersects[h] = Answer(TRUE, NoErr)
        /\ Len(h) < f.maxPrecision}

\* What Intersects can answer on a hash it was never asked about: the fence
\* straddles at most MaxStraddled cells shorter than the maximum precision.
FreshIntersects(hash) ==
    IF Len(hash) < f.maxPrecision /\ Cardinality(Straddled) >= MaxStraddled
    THEN IntersectsAnswers \ {Answer(TRUE, NoErr)}
    ELSE IntersectsAnswers

\* The top call returns (v, e) to its caller.
Return(v, e) ==
    /\ stack' = Pop
    /\ ret' = Pair(v, e)
    /\ pc' = IF Len(stack) = 1 THEN "afterSearch" ELSE "search"

\* The loop of the top call, its frame now being fr, is at its i-th symbol: it
\* calls computeVariableHashes on hash+next or, the symbols being over,
\* returns hashes, nil.
LoopOn(fr) ==
    IF fr.i <= Len(geohashBase32Alphabet)
    THEN /\ stack' = Append(SetTop(fr), Frame(child(fr.hash, fr.i)))
         /\ UNCHANGED <<ret, pc>>
    ELSE Return(fr.hashes, NoErr)

\* Fill is called: it calls computeVariableHashes(fence, mode, "", maxHashes).
FillCall(m, limit) ==
    /\ pc = "idle"
    /\ mode' = m
    /\ maxHashes' = limit
    /\ pc' = "search"
    /\ stack' = <<Frame(<<>>)>>
    /\ ret' = NoResult
    /\ log' = <<>>
    /\ steps' = 0
    /\ UNCHANGED <<f, fence, hashes, result, returned>>

\* cont, err := f.container.Contains(fence, hash), and the two tests on it.
cvhContains(a) ==
    /\ pc = "search"
    /\ Top.pc = "contains"
    /\ a \in Ask(fence.contains, Top.hash, ContainsAnswers)
    /\ fence' = [fence EXCEPT !.contains = Told(fence.contains, Top.hash, a)]
    /\ LET o == containsOutcome(a)
       IN  /\ log' = Append(log, Event("Contains", Top.hash, o))
           /\ CASE o = "error" -> Return(NilSlice, a.err)
                [] o = "accept" -> Return(Slice(<<Top.hash>>), NoErr)
                [] OTHER ->
                     /\ stack' = SetTop([Top EXCEPT !.pc = "intersects"])
                     /\ UNCHANGED <<ret, pc>>
    /\ steps' = steps + 1
    /\ UNCHANGED <<f, mode, maxHashes, hashes, result, returned>>

\* inter, err := f.intersector.Intersects(fence, hash), the tests on it, the
\* test of the precision and, when the cell is subdivided,
\* "hashes := make([]string, 0)" and the call on the first symbol.
cvhIntersects(a) ==
    /\ pc = "search"
    /\ Top.pc = "intersects"
    /\ a \in Ask(fence.intersects, Top.hash, FreshIntersects(Top.hash))
    /\ fence' = [fence EXCEPT !.intersects = Told(fence.intersects, Top.hash, a)]
    /\ LET o == intersectsOutcome(a, Top.hash, f.maxPrecision, mode)
       IN  /\ log' = Append(log, Event("Intersects", Top.hash, o))
           /\ CASE o = "error" -> Return(NilSlice, a.err)
                [] o = "reject" -> Return(NilSlice, NoErr)
                [] o = "accept" -> Return(Slice(<<Top.hash>>), NoErr)
                [] OTHER -> LoopOn([Top EXCEPT !.pc = "loop", !.i = 1,
                                                   !.hashes = Slice(<<>>)])
    /\ steps' = steps + 1
    /\ UNCHANGED <<f, mode, maxHashes, hashes, result, returned>>

\* The loop takes what the call on its i-th symbol returned: the test of
\* err, the test of len(out), the append and the test of len(hashes); then it
\* goes on with the next symbol.
cvhCollect ==
    /\ pc = "search"
    /\ Top.pc = "loop"
    /\ LET o == collectOutcome(Top.hashes, ret, maxHashes)
       IN  IF o.returns
           THEN Return(o.pair.hashes, o.pair.err)
           ELSE LoopOn([Top EXCEPT !.i = Top.i + 1, !.hashes = o.hashes])
    /\ steps' = steps + 1
    /\ UNCHANGED <<f, fence, mode, maxHashes, hashes, result, log, returned>>

\* Fill takes what computeVariableHashes returned: the test of err and the
\* test of f.fixedPrecision.
FillAfterSearch ==
    /\ pc = "afterSearch"
    /\ hashes' = ret.hashes
    /\ IF ret.err # NoErr
       THEN /\ result' = Pair(NilSlice, ret.err)
            /\ pc' = "done"
       ELSE IF ~f.fixedPrecision
       THEN /\ result' = Pair(ret.hashes, NoErr)
            /\ pc' = "done"
       ELSE /\ pc' = "fixed"
            /\ UNCHANGED result
    /\ steps' = steps + 1
    /\ UNCHANGED <<f, fence, mode, maxHashes, stack, ret, log, returned>>

\* Fill extends every hash to the maximum precision.
FillFixed ==
    /\ pc = "fixed"
    /\ result' = fillFixed(f.maxPrecision, hashes, maxHashes)
    /\ pc' = "done"
    /\ steps' = steps + 1
    /\ UNCHANGED <<f, fence, mode, maxHashes, stack, ret, hashes, log, returned>>

\* After a Fill in Contains mode that succeeded, the caller fills the same
\* fence in Intersects mode.
FillAgain ==
    /\ pc = "done"
    /\ result.err = NoErr
    /\ returned = <<>>
    /\ mode = FillContains
    /\ returned' = <<[mode |-> mode, result |-> result]>>
    /\ mode' = FillIntersects
    /\ pc' = "search"
    /\ stack' = <<Frame(<<>>)>>
    /\ ret' = NoResult
    /\ hashes' = NilSlice
    /\ result' = NoResult
    /\ log' = <<>>
    /\ steps' = 0
    /\ UNCHANGED <<f, fence, maxHashes>>

FillModes == {FillIntersects, FillContains}

\* The maxHashes Fill is called with: -1, the small ones, and one that lets a
\* cell be extended by one symbol next to a few other cells.
LargeMaxHashes == Len(geohashBase32Alphabet) + MaxHashesBound
MaxHashesInputs == ((-1)..MaxHashesBound) \cup {LargeMaxHashes}

\* The steps of Fill up to its fixed-precision part.
SearchStep ==
    \/ \E a \in Answers : cvhContains(a)
    \/ \E a \in Answers : cvhIntersects(a)
    \/ cvhCollect
    \/ FillAfterSearch

Step ==
    \/ SearchStep
    \/ FillFixed

Next ==
    \/ \E m \in FillModes, limit \in MaxHashesInputs : FillCall(m, limit)
    \/ Step

\* One call of Fill.
Spec == Init /\ [][Next]_vars

\* One call of Fill that keeps running: Go runs the call, which neither
\* blocks nor waits for anything, until it returns.  FillFixed can be taken
\* exactly when pc = "fixed" and leaves it, so a Fill that keeps running is
\* not at "fixed" for ever.
FairSpec == Spec /\ WF_vars(SearchStep) /\ []<>(pc # "fixed")

\* A call of Fill in Contains mode and, when it succeeded, a call in
\* Intersects mode on the same fence with the same maxHashes.
SpecBoth == Init /\ [][Next \/ FillAgain]_vars

----------------------------------------------------------------------------
(* What the claims speak of. *)

Range(s) == {s[i] : i \in DOMAIN s}

\* p is c, or a prefix of c.
IsPrefix(p, c) == Len(p) <= Len(c) /\ SubSeq(c, 1, Len(p)) = p

ProperPrefixes(c) == {SubSeq(c, 1, k) : k \in 0..(Len(c) - 1)}

\* What a predicate with table g answers on the cell c; Unknown when the fence
\* can touch c and the predicate was never asked.
Unknown ==
    [val |-> FALSE, err |-> [kind |-> "unknown", msg |-> "", limit |-> 0, have |-> 0]]
AnswerOf(g, c) ==
    IF ~Touchable(c) THEN Answer(FALSE, NoErr)
    ELSE IF c \in DOMAIN g THEN g[c]
    ELSE Unknown

Contained(c) == AnswerOf(fence.contains, c) = Answer(TRUE, NoErr)
NotContained(c) == AnswerOf(fence.contains, c) = Answer(FALSE, NoErr)
Intersecting(c) == AnswerOf(fence.intersects, c) = Answer(TRUE, NoErr)
Disjoint(c) == AnswerOf(fence.intersects, c) = Answer(FALSE, NoErr)
Straddling(c) == NotContained(c) /\ Intersecting(c)

\* The cells the predicate ev was evaluated on in this call.
Evaluated(ev) == {log[k].hash : k \in {j \in DOMAIN log : log[j].ev = ev}}

Succeeded == pc = "done" /\ result.err = NoErr
Output == result.hashes.elems

\* The error the evaluation e ended in, NoErr when it ended in none.
ErrorOf(e) ==
    IF e.ev = "Contains" THEN AnswerOf(fence.contains, e.hash).err
    ELSE AnswerOf(fence.intersects, e.hash).err

----------------------------------------------------------------------------
(* C1 *)

\* C1: whenever Fill returns without an error, the list it returns has at
\* most maxHashes elements.  Stated for maxHashes >= 0, the caps a list can
\* meet: a violation here is a violation of the claim for every integer.
C1_OutputWithinCap == (Succeeded /\ maxHashes >= 0) => Len(Output) <= maxHashes

----------------------------------------------------------------------------
(* C2 *)

\* The cells the claim puts in the output of a search in mode m.
InCover(c, m) ==
    /\ Len(c) <= f.maxPrecision
    /\ \A p \in ProperPrefixes(c) : Straddling(p)
    /\ \/ Contained(c)
       \/ m = FillIntersects /\ Len(c) = f.maxPrecision /\ Intersecting(c)

\* C2: in variable-precision mode, when Fill succeeds, a cell is in the output
\* if and only if it is no longer than maxPrecision, the fence straddles each
\* of its proper prefixes, and the fence contains it or, in Intersects mode
\* and at maxPrecision, intersects it; in Contains mode every cell of the
\* output is contained.  (A cell on which Contains was never evaluated is in
\* neither: the root was evaluated, and so was every child of a cell shorter
\* than maxPrecision that the fence straddles together with all its
\* prefixes; so the answers never asked for decide nothing.)
C2_VariableCover ==
    (Succeeded /\ ~f.fixedPrecision) =>
        /\ Range(Output) \subseteq Evaluated("Contains")
        /\ \A c \in Evaluated("Contains") :
              (c \in Range(Output)) <=> InCover(c, mode)
        /\ <<>> \in Evaluated("Contains")
        /\ \A p \in Evaluated("Contains") :
              (/\ Len(p) < f.maxPrecision
               /\ \A q \in ProperPrefixes(p) \cup {p} : Straddling(q)) =>
                  \A x \in Range(geohashBase32Alphabet) :
                      Append(p, x) \in Evaluated("Contains")
        /\ \A c \in Evaluated("Contains") :
              NotContained(c) => c \in Evaluated("Intersects")
        /\ mode = FillContains => \A c \in Range(Output) : Contained(c)

\* An Intersects search returned a contained cell shorter than maxPrecision
\* and a boundary cell at maxPrecision, and left a cell out.
C2_Witness ==
    /\ Succeeded /\ ~f.fixedPrecision /\ mode = FillIntersects
    /\ f.maxPrecision = 2
    /\ \E c \in Range(Output) : Len(c) = 1 /\ Contained(c)
    /\ \E c \in Range(Output) : Len(c) = 2 /\ Straddling(c)
    /\ \E c \in DOMAIN fence.intersects : Len(c) = 2 /\ Disjoint(c)

----------------------------------------------------------------------------
(* C3 *)

\* C3: once a predicate has returned an error, Fill evaluates no further
\* predicate and accepts no further cell (the failed evaluation is the last
\* entry of the log), never reaches its fixed-precision part, and returns a
\* nil list with exactly that error.
C3_PredicateErrorAborts ==
    \A k \in DOMAIN log :
        ErrorOf(log[k]) # NoErr =>
            /\ k = Len(log)
            /\ pc # "fixed"
            /\ pc = "done" => result = Pair(NilSlice, ErrorOf(log[k]))

\* Intersects failed two levels down, after other cells had been accepted, in
\* a fixed-precision Fill that has returned.
C3_Witness ==
    /\ pc = "done" /\ f.fixedPrecision
    /\ Len(log) >= 4
    /\ log[Len(log)].ev = "Intersects" /\ Len(log[Len(log)].hash) = 2
    /\ ErrorOf(log[Len(log)]) = PredicateErr(IntersectsError)
    /\ \E k \in DOMAIN log : log[k].outcome = "accept"
    /\ result.err = PredicateErr(IntersectsError)

----------------------------------------------------------------------------
(* C4 *)

\* C4: the list a successful Fill returns is prefix-disjoint: no two distinct
\* positions hold cells one of which is the other or a prefix of the other.
C4_PrefixDisjoint ==
    Succeeded =>
        \A i, j \in DOMAIN Output : i # j => ~IsPrefix(Output[i], Output[j])

\* A variable-precision Fill returned three cells or more, of two lengths.
C4_Witness ==
    /\ Succeeded /\ ~f.fixedPrecision
    /\ Len(Output) >= 3
    /\ \E i, j \in DOMAIN Output : Len(Output[i]) < Len(Output[j])

----------------------------------------------------------------------------
(* C5 *)

\* The result of the Fill in mode m, of the two calls on this fence.
ResultIn(m) == IF mode = m THEN result ELSE returned[1].result

\* C5: when Fill succeeds on the same fence, filler and maxHashes in both
\* modes, every cell returned in Contains mode is returned in Intersects mode.
C5_IntersectsCoversContains ==
    (Succeeded /\ returned # <<>>) =>
        Range(ResultIn(FillContains).hashes.elems)
            \subseteq Range(ResultIn(FillIntersects).hashes.elems)

\* Both calls succeeded; Contains mode returned a cell and Intersects mode
\* returned that cell and more.
C5_Witness ==
    /\ Succeeded /\ returned # <<>>
    /\ ResultIn(FillContains).hashes.elems # <<>>
    /\ Len(ResultIn(FillIntersects).hashes.elems)
           > Len(ResultIn(FillContains).hashes.elems)

----------------------------------------------------------------------------
(* C6 *)

\* C6 as claimed: every cell the search rejects has Intersects false.
C6_RejectedAreDisjoint ==
    \A k \in DOMAIN log : log[k].outcome = "reject" => Disjoint(log[k].hash)

\* C6 as amended: every cell the search rejects has Intersects false, or the
\* mode is Contains and the cell is a cell of length maxPrecision that the
\* fence straddles; in Intersects mode every rejected cell has Intersects
\* false.
C6_RejectedAreDisjointOrBoundary ==
    \A k \in DOMAIN log :
        log[k].outcome = "reject" =>
            \/ Disjoint(log[k].hash)
            \/ /\ mode = FillContains
               /\ Len(log[k].hash) = f.maxPrecision
               /\ Straddling(log[k].hash)

\* A Contains search has rejected a disjoint cell and a boundary cell, and
\* has subdivided a cell the fence straddles.
C6_Witness ==
    /\ mode = FillContains
    /\ \E k \in DOMAIN log :
          /\ log[k].outcome = "reject"
          /\ Touchable(log[k].hash) /\ Disjoint(log[k].hash)
    /\ \E k \in DOMAIN log : log[k].outcome = "reject" /\ Straddling(log[k].hash)
    /\ \E k \in DOMAIN log : log[k].outcome = "subdivide" /\ Len(log[k].hash) = 1

----------------------------------------------------------------------------
(* C7 *)

RECURSIVE Power(_, _)
Power(b, n) == IF n = 0 THEN 1 ELSE b * Power(b, n - 1)

NumSymbols == Len(geohashBase32Alphabet)

\* The v-th string of w symbols in alphabet order, counted from 0: v written
\* in base NumSymbols with w digits.
Word(v, w) ==
    [j \in 1..w |->
        geohashBase32Alphabet[((v \div Power(NumSymbols, w - j)) % NumSymbols) + 1]]

\* All strings of length n that have c as a prefix, in alphabet order.
Descendants(c, n) ==
    [k \in 1..Power(NumSymbols, n - Len(c)) |-> c \o Word(k - 1, n - Len(c))]

\* Descendants of the cells of hs from the i-th on, one after the other.
RECURSIVE Expansion(_, _, _)
Expansion(hs, i, n) ==
    IF i > Len(hs) THEN <<>> ELSE Descendants(hs[i], n) \o Expansion(hs, i + 1, n)

\* C7: with fixed precision, a successful Fill returns, for the
\* variable-length cells in their order, all strings of length maxPrecision
\* that have the cell as a prefix, in alphabet order: every returned cell has
\* length maxPrecision, and a cell of length n gives
\* NumSymbols^(maxPrecision - n) cells.  The expansion evaluates no
\* predicate.
C7_FixedExpansion ==
    /\ [](    (Succeeded /\ f.fixedPrecision) =>
                /\ Output = Expansion(hashes.elems, 1, f.maxPrecision)
                /\ \A c \in Range(Output) : Len(c) = f.maxPrecision)
    /\ [][pc = "fixed" => (fence' = fence /\ log' = log)]_vars

\* A fixed-precision Fill expanded a cell two short of maxPrecision next to a
\* cell already of that length.
C7_Witness ==
    /\ Succeeded /\ f.fixedPrecision
    /\ f.maxPrecision = 2
    /\ Len(hashes.elems) >= 2
    /\ \E c \in Range(hashes.elems) : Len(c) = 1
    /\ \E c \in Range(hashes.elems) : Len(c) = 2
    /\ Len(Output) >= 3

----------------------------------------------------------------------------
(* C8 *)

\* The cells accepted in the first k entries of the log.
Accepted(k) == Cardinality({j \in 1..k : log[j].outcome = "accept"})

\* C8 as claimed: once the cells accepted so far in this call, over all the
\* levels of the recursion, exceed maxHashes, no predicate is evaluated and no
\* cell is accepted: the acceptance that exceeds is the last entry of the log.
C8_FailsOnceTotalExceeds ==
    \A k \in DOMAIN log :
        (log[k].outcome = "accept" /\ Accepted(k) > maxHashes) => k = Len(log)

\* The loop of the top call holds a list longer than maxHashes: the list the
\* call returned, or that list appended to its own.
ListExceeds ==
    /\ pc = "search"
    /\ Top.pc = "loop"
    /\ ret.err = NoErr
    /\ \/ Len(ret.hashes.elems) > maxHashes
       \/ Len(Top.hashes.elems) + Len(ret.hashes.elems) > maxHashes

\* The search is returning the output-cap error.
CapFailing == pc \in {"search", "afterSearch"} /\ ret.err.kind = "limit"

\* C8 as amended: as soon as the list of one call of the search (the list a
\* call returned to it, or its own list after the append) exceeds maxHashes,
\* the search fails with the output-cap error naming maxHashes and the length
\* of that list; from then on no predicate is evaluated and no cell is
\* accepted, every call returns that error, and Fill returns it with no list.
C8_FailsOnceListExceeds ==
    /\ [][ListExceeds =>
            /\ CapFailing'
            /\ ret'.err \in {LimitErr(maxHashes, Len(ret.hashes.elems)),
                             LimitErr(maxHashes, Len(Top.hashes.elems)
                                                   + Len(ret.hashes.elems))}
            /\ log' = log]_vars
    /\ [][CapFailing =>
            /\ log' = log
            /\ fence' = fence
            /\ \/ CapFailing' /\ ret' = Pair(NilSlice, ret.err)
               \/ pc' = "done" /\ result' = Pair(NilSlice, ret.err)]_vars
    /\ [](\A i \in DOMAIN stack :
              stack[i].pc = "loop" /\ stack[i].i > 1 =>
                  Len(stack[i].hashes.elems) <= maxHashes)

\* The search failed on the cap after accepting cells on two levels.
C8_Witness ==
    /\ pc = "done" /\ result.err.kind = "limit"
    /\ maxHashes >= 1
    /\ \E j, k \in DOMAIN log :
          /\ log[j].outcome = "accept" /\ log[k].outcome = "accept"
          /\ Len(log[j].hash) # Len(log[k].hash)

----------------------------------------------------------------------------
(* C9 *)

\* The cells of length at most n: 1 + NumSymbols + ... + NumSymbols^n.
RECURSIVE NumCells(_)
NumCells(n) == IF n = 0 THEN 1 ELSE Power(NumSymbols, n) + NumCells(n - 1)

\* Steps of one Fill: three for each cell (Contains, Intersects, the caller's
\* loop taking what the call returned) and two of Fill itself.
StepBound == 3 * NumCells(f.maxPrecision) + 2

\* No predicate is evaluated on a cell longer than maxPrecision, no cell of
\* length maxPrecision is subdivided, no call is on a cell longer than
\* maxPrecision, and no cell of the result is longer.
WithinPrecision ==
    /\ \A k \in DOMAIN log :
          /\ Len(log[k].hash) <= f.maxPrecision
          /\ log[k].outcome = "subdivide" => Len(log[k].hash) < f.maxPrecision
    /\ \A i \in DOMAIN stack : Len(stack[i].hash) <= f.maxPrecision
    /\ \A c \in Range(result.hashes.elems) : Len(c) <= f.maxPrecision

\* C9: every call of Fill returns, with a result or an error: every step of
\* the call counts, the call takes at most StepBound steps, the search can
\* take a step until Fill has what it returned, the expansion, one step that
\* evaluates no predicate, gives a list or the output-cap error, and a Fill
\* that keeps running has returned from some moment on.  During the call no
\* cell longer than maxPrecision is evaluated, called on or produced, and no
\* cell of length maxPrecision is subdivided.
C9_TerminatesWithinPrecision ==
    /\ [][pc # "idle" => steps' = steps + 1]_vars
    /\ [](steps <= StepBound)
    /\ [](pc \in {"search", "afterSearch"} => ENABLED SearchStep)
    /\ [](pc = "fixed" =>
            fillFixed(f.maxPrecision, hashes, maxHashes).err.kind \in {"nil", "limit"})
    /\ [](WithinPrecision)
    /\ <>[](pc \in {"idle", "done"})

\* A fixed-precision Fill returned a list after the fence straddled a cell of
\* length maxPrecision.
C9_Witness ==
    /\ Succeeded /\ f.fixedPrecision /\ f.maxPrecision = 2
    /\ \E c \in DOMAIN fence.intersects : Len(c) = 2 /\ Straddling(c)
    /\ Output # <<>>

----------------------------------------------------------------------------
(* C10 *)

\* What Fill returns when the test of len(out) before its loop is taken out.
FillWithoutPreCheck ==
    IF ret.err # NoErr THEN Pair(NilSlice, ret.err)
    ELSE IF ~f.fixedPrecision THEN Pair(ret.hashes, NoErr)
    ELSE fillLoop(f.maxPrecision, ret.hashes, maxHashes, 1, Slice(<<>>))

\* C10 as claimed: for every maxHashes, Fill returns the same list and the
\* same error outcome (it fails or it does not) with the test before the loop
\* and without it.
C10_PreCheckHasNoEffect ==
    pc = "done" =>
        /\ result.hashes = FillWithoutPreCheck.hashes
        /\ result.err = NoErr <=> FillWithoutPreCheck.err = NoErr

\* C10 as amended: for every maxHashes >= 0, Fill returns the same list and
\* the same error (nil, or the same error value) with the test before the
\* loop and without it.
C10_PreCheckHasNoEffectFromZero ==
    (pc = "done" /\ maxHashes >= 0) => result = FillWithoutPreCheck

\* A fixed-precision Fill with maxHashes 0 returned after a search that
\* returned no cell.
C10_Witness ==
    /\ pc = "done" /\ f.fixedPrecision /\ maxHashes = 0
    /\ ret.err = NoErr /\ ret.hashes.elems = <<>>
    /\ result.err = NoErr

=============================================================================
